---- MODULE Spec2Model ----
(***************************************************************************)
(* A model of zyx-mongodb: the per-tenant MongoDatabase (connection and    *)
(* model registry), the MongooseModel record accessor, the closeDB helper, *)
(* the two log sinks (createLog and MongoLog) and the account-security     *)
(* methods of the user schema.                                             *)
(***************************************************************************)
EXTENDS Integers, Sequences, FiniteSets, TLC

VARIABLES
    db_url,              \* this.config.db_url of the tenant database ("" = missing)
    mongooseConnection,  \* MongoDatabase.#mongooseConnection (0 = undefined)
    connection,          \* what BaseDatabase.setConnection last stored (0 = null)
    handles,             \* state of every connection mongoose.createConnection produced
    models,              \* this.models of the tenant database: name -> compiled model
    accessor,            \* the MongooseModel instance constructed last
    docs,                \* the stored documents of each model's collection
    now,                 \* Date.now(), in milliseconds
    passwordHash,        \* user.passwordHash of the user document in memory
    pwModified,          \* user.isModified("passwordHash")
    storedHash,          \* passwordHash of the user record as persisted
    plaintext,           \* the plaintext of the password that was set last
    failedLoginAttempts, \* user.failedLoginAttempts
    lockUntil,           \* user.lockUntil (undefinedDate = not set)
    lastLoginAt,         \* user.lastLoginAt
    isVerified,          \* user.isVerified
    verifyCode,          \* user.verifyCode (<<>> = not set)
    verifyCodeExpiresAt, \* user.verifyCodeExpiresAt
    verifyCodeIssuedAt,  \* when generateVerifyCode last ran
    resetCode,           \* user.resetCode (<<>> = not set)
    resetCodeExpiresAt,  \* user.resetCodeExpiresAt
    resetCodeIssuedAt,   \* when generateResetCode last ran
    coll,                \* the log collection of the tenant database
    setupClients,        \* how many MongoClients createLog has opened
    sinkConfig,          \* this.config of the MongoLog (NoConfig = not constructed)
    mongoClient,         \* MongoLog.#mongoClient (NoClient = null)
    ownsConnection,      \* MongoLog.#ownsConnection
    collectionSet,       \* MongoLog.#collection is not null
    sinkClients,         \* state of every MongoClient the MongoLog created
    tenantShared,        \* tenant.db.connection is a MongoClient
    tenantClientOpen,    \* the tenant's MongoClient is open
    logEntries,          \* how many entries the log collection holds
    call                 \* the call that completed last, with its outcome

dbVars == <<db_url, mongooseConnection, connection, handles, models, accessor, docs>>

pwVars == <<passwordHash, pwModified, storedHash, plaintext>>

lockVars == <<failedLoginAttempts, lockUntil, lastLoginAt>>

codeVars == <<isVerified, verifyCode, verifyCodeExpiresAt, verifyCodeIssuedAt,
              resetCode, resetCodeExpiresAt, resetCodeIssuedAt>>

userVars == <<now, pwVars, lockVars, codeVars>>

storeVars == <<coll, setupClients, logEntries>>

sinkVars == <<sinkConfig, mongoClient, ownsConnection, collectionSet, sinkClients,
              tenantShared, tenantClientOpen>>

logVars == <<storeVars, sinkVars>>

\* what the tenant database and the record accessor leave alone
notDb == <<userVars, logVars>>

\* what the log sinks leave alone
notLog == <<dbVars, userVars>>

vars == <<dbVars, userVars, logVars, call>>

-----------------------------------------------------------------------------
(* Bounds *)

MaxHandles == 3
MaxDocs == 2
MaxTicks == 4
MaxAttempts == 7
MaxClients == 2
MaxSetups == 2
MaxEntries == 2

-----------------------------------------------------------------------------
(* Values *)

Handles == 1..MaxHandles
DocIds == 1..MaxDocs
Names == {"user", "post"}
Schemas == {"schemaA", "schemaB"}
DbUrls == {"", "mongodb://host/app"}

\* this.models[name] of a name that was never registered
NoModel == [conn |-> 0, schema |-> ""]

\* no accessor constructed yet
NoAccessor == [name |-> "", model |-> NoModel]

\* null, as findById / findByIdAndUpdate / findByIdAndDelete return it
Absent == [id |-> 0, f1 |-> "", f2 |-> ""]

\* the values of the two fields of a document: f1 is required, f2 is optional
F1Vals == {"", "a", "b"}
F2Vals == {"x", "y"}
Data == [f1 : F1Vals, f2 : F2Vals]
Patches == [field : {"f1"}, value : F1Vals] \cup [field : {"f2"}, value : F2Vals]

\* the handle mongoose.createConnection produces next
NextHandle == 1 + Cardinality({h \in Handles : handles[h] # "none"})

\* a slot of the collection no document was ever created in
Unused == [id |-> -1, f1 |-> "", f2 |-> ""]

\* the id Mongoose assigns to the document created next
NextDocId == 1 + Cardinality({i \in DocIds : \E n \in Names : docs[n][i] # Unused})

-----------------------------------------------------------------------------
(* MongoDatabase *)

\* connect(): a missing db_url throws; createConnection may fail
MongoDatabase_connect ==
    /\ NextHandle <= MaxHandles
    /\ IF db_url = ""
       THEN /\ call' = [op |-> "connect", out |-> "MissingUri"]
            /\ UNCHANGED <<dbVars, notDb>>
       ELSE \E connected \in BOOLEAN :
              IF connected
              THEN /\ handles' = [handles EXCEPT ![NextHandle] = "open"]
                   /\ mongooseConnection' = NextHandle
                   /\ connection' = NextHandle
                   /\ call' = [op |-> "connect", out |-> "ok"]
                   /\ UNCHANGED <<db_url, models, accessor, docs, notDb>>
              ELSE /\ call' = [op |-> "connect", out |-> "ConnectionError"]
                   /\ UNCHANGED <<dbVars, notDb>>

\* the outcomes of connection.close(): closing an open connection may fail,
\* closing a closed one returns at once
CloseOutcomes(h) == IF handles[h] = "open" THEN BOOLEAN ELSE {TRUE}

\* what disconnect() does when close() rejects: no try/catch, the rejection
\* leaves the method and setConnection(null) is not reached
disconnectCloseFailed ==
    /\ call' = [op |-> "disconnect", out |-> "CloseError"]
    /\ UNCHANGED <<dbVars, notDb>>

\* disconnect(): closes #mongooseConnection when it is set; the field itself
\* is never cleared
MongoDatabase_disconnect ==
    IF mongooseConnection # 0
    THEN \E closed \in CloseOutcomes(mongooseConnection) :
           IF closed
           THEN /\ handles' = [handles EXCEPT ![mongooseConnection] = "closed"]
                /\ connection' = 0
                /\ call' = [op |-> "disconnect", out |-> "ok"]
                /\ UNCHANGED <<db_url, mongooseConnection, models, accessor, docs, notDb>>
           ELSE disconnectCloseFailed
    ELSE /\ call' = [op |-> "disconnect", out |-> "ok"]
         /\ UNCHANGED <<dbVars, notDb>>

\* registerModel without its guard against a registered name
registerModel_overwrite(name, schema) ==
    IF mongooseConnection = 0
    THEN [out |-> "TypeError", models |-> models]
    ELSE [out |-> "ok",
          models |-> [models EXCEPT ![name] =
                         [conn |-> mongooseConnection, schema |-> schema]]]

\* registerModel that returns quietly on a registered name
registerModel_silent(name, schema) ==
    IF models[name] # NoModel
    THEN [out |-> "ok", models |-> models]
    ELSE IF mongooseConnection = 0
         THEN [out |-> "TypeError", models |-> models]
         ELSE [out |-> "ok",
               models |-> [models EXCEPT ![name] =
                              [conn |-> mongooseConnection, schema |-> schema]]]

\* registerModel(name, schema), as the outcome and the registry it leaves
registerModel(name, schema) ==
    IF models[name] # NoModel
    THEN [out |-> "DuplicateModel", models |-> models]
    ELSE IF mongooseConnection = 0
         THEN [out |-> "TypeError", models |-> models]
         ELSE [out |-> "ok",
               models |-> [models EXCEPT ![name] =
                              [conn |-> mongooseConnection, schema |-> schema]]]

\* getModel(name)
getModel(name) == models[name]

\* a caller registers a model
MongoDatabase_registerModel ==
    \E name \in Names, schema \in Schemas :
        /\ models' = registerModel(name, schema).models
        /\ call' = [op |-> "registerModel", name |-> name, schema |-> schema,
                    out |-> registerModel(name, schema).out]
        /\ UNCHANGED <<db_url, mongooseConnection, connection, handles, accessor, docs, notDb>>

-----------------------------------------------------------------------------
(* closeDB *)

\* closeDB(connection): 0 stands for a null or invalid argument
closeDB ==
    \E c \in 0..MaxHandles :
        /\ c # 0 => handles[c] # "none"
        /\ IF c = 0
           THEN /\ call' = [op |-> "closeDB", out |-> "ok", logged |-> "warn"]
                /\ UNCHANGED <<dbVars, notDb>>
           ELSE \E closed \in CloseOutcomes(c) :
                  IF closed
                  THEN /\ handles' = [handles EXCEPT ![c] = "closed"]
                       /\ call' = [op |-> "closeDB", out |-> "ok", logged |-> "info"]
                       /\ UNCHANGED <<db_url, mongooseConnection, connection, models,
                                      accessor, docs, notDb>>
                  ELSE /\ call' = [op |-> "closeDB", out |-> "ok", logged |-> "error"]
                       /\ UNCHANGED <<dbVars, notDb>>

-----------------------------------------------------------------------------
(* MongooseModel *)

\* what schema() of a concrete accessor class does: return a schema, return
\* an object literal without fields ("emptyObject"), return null or undefined
\* (""), return a value that is no object ("nonObject"), or (not overridden)
\* throw
SchemaImpls == Schemas \cup {"emptyObject", "", "nonObject", "notImplemented"}

\* the guard of the constructor with the typeof test left out
schemaInvalid_falsyOnly(impl) == impl = ""

\* the guard of the constructor: !schema || typeof schema !== "object"
schemaInvalid(impl) == impl = "" \/ impl = "nonObject"

\* the constructor's test of db.models[modelName], as if it never found a model
isRegistered_never(name) == FALSE

\* the constructor's test of db.models[modelName]
isRegistered(name) == models[name] # NoModel

\* new Accessor(tenant): name is this.name, impl is what schema() does
MongooseModel_constructor ==
    \E name \in Names, impl \in SchemaImpls :
        IF impl = "notImplemented"
        THEN /\ call' = [op |-> "construct", name |-> name, impl |-> impl,
                         out |-> "SchemaNotImplemented"]
             /\ UNCHANGED <<dbVars, notDb>>
        ELSE IF schemaInvalid(impl)
        THEN /\ call' = [op |-> "construct", name |-> name, impl |-> impl,
                         out |-> "MissingSchema"]
             /\ UNCHANGED <<dbVars, notDb>>
        ELSE IF ~isRegistered(name)
        THEN /\ models' = registerModel(name, impl).models
             /\ IF registerModel(name, impl).out = "ok"
                THEN accessor' = [name |-> name, model |-> getModel(name)']
                ELSE accessor' = accessor
             /\ call' = [op |-> "construct", name |-> name, impl |-> impl,
                         out |-> registerModel(name, impl).out]
             /\ UNCHANGED <<db_url, mongooseConnection, connection, handles, docs, notDb>>
        ELSE /\ accessor' = [name |-> name, model |-> getModel(name)]
             /\ call' = [op |-> "construct", name |-> name, impl |-> impl, out |-> "ok"]
             /\ UNCHANGED <<db_url, mongooseConnection, connection, handles, models, docs, notDb>>

\* the store answers the accessor's model while the connection the model was
\* compiled on is open
StoreAvailable == handles[accessor.model.conn] = "open"

\* the accessor's collection
Coll == docs[accessor.name]

\* a document of the collection, null when there is none under this id
Stored(id) == IF Coll[id] = Unused THEN Absent ELSE Coll[id]

\* the schema's validation on create: f1 is required
Valid(data) == data.f1 # ""

\* a patch applied to a document
Patched(doc, patch) ==
    IF patch.field = "f1" THEN [doc EXCEPT !.f1 = patch.value]
                          ELSE [doc EXCEPT !.f2 = patch.value]

\* findById(id): the document, or null
findById(id) == Stored(id)

\* create(data): the created document, with the id Mongoose assigned
create(data) == [id |-> NextDocId, f1 |-> data.f1, f2 |-> data.f2]

\* updateById without { new: true }: the document as it was
updateById_old(id, updates) == Stored(id)

\* updateById(id, updates): findByIdAndUpdate with { new: true } returns the
\* document as it is after the update
updateById(id, updates) ==
    IF Stored(id) = Absent THEN Absent ELSE Patched(Stored(id), updates)

\* deleteById(id): findByIdAndDelete returns the document it deleted
deleteById(id) == Stored(id)

\* an operation on a store that does not answer
Unavailable(op) ==
    /\ call' = [op |-> op, out |-> "StoreUnavailable"]
    /\ UNCHANGED <<dbVars, notDb>>

MongooseModel_findById ==
    /\ accessor # NoAccessor
    /\ \E id \in DocIds :
         IF ~StoreAvailable THEN Unavailable("findById")
         ELSE /\ call' = [op |-> "findById", id |-> id, out |-> "ok", ret |-> findById(id)]
              /\ UNCHANGED <<dbVars, notDb>>

\* findById with a string that is no ObjectId
MongooseModel_findByIdMalformed ==
    /\ accessor # NoAccessor
    /\ call' = [op |-> "findById", out |-> "CastError"]
    /\ UNCHANGED <<dbVars, notDb>>

MongooseModel_create ==
    /\ accessor # NoAccessor
    /\ \E data \in Data :
         IF ~Valid(data)
         THEN /\ call' = [op |-> "create", data |-> data, out |-> "ValidationError"]
              /\ UNCHANGED <<dbVars, notDb>>
         ELSE IF ~StoreAvailable THEN Unavailable("create")
         ELSE /\ NextDocId <= MaxDocs
              /\ docs' = [docs EXCEPT ![accessor.name][NextDocId] = create(data)]
              /\ call' = [op |-> "create", data |-> data, out |-> "ok", ret |-> create(data)]
              /\ UNCHANGED <<db_url, mongooseConnection, connection, handles, models, accessor, notDb>>

MongooseModel_updateById ==
    /\ accessor # NoAccessor
    /\ \E id \in DocIds, updates \in Patches :
         IF ~StoreAvailable THEN Unavailable("updateById")
         ELSE /\ docs' = IF Stored(id) = Absent THEN docs
                         ELSE [docs EXCEPT ![accessor.name][id] = Patched(Stored(id), updates)]
              /\ call' = [op |-> "updateById", id |-> id, updates |-> updates, out |-> "ok",
                          ret |-> updateById(id, updates)]
              /\ UNCHANGED <<db_url, mongooseConnection, connection, handles, models, accessor, notDb>>

MongooseModel_deleteById ==
    /\ accessor # NoAccessor
    /\ \E id \in DocIds :
         IF ~StoreAvailable THEN Unavailable("deleteById")
         ELSE /\ docs' = IF Stored(id) = Absent THEN docs
                         ELSE [docs EXCEPT ![accessor.name][id] = Absent]
              /\ call' = [op |-> "deleteById", id |-> id, out |-> "ok", ret |-> deleteById(id)]
              /\ UNCHANGED <<db_url, mongooseConnection, connection, handles, models, accessor, notDb>>

-----------------------------------------------------------------------------
(* userSchema: constants and values *)

SALT_ROUNDS == 12
CODE_EXPIRATION_MINUTES == 15
MAX_FAILED_ATTEMPTS == 5
ACCOUNT_LOCK_DURATION_MS == 15 * 60 * 1000

\* bcrypt reads no more than this many bytes of the string it hashes
BCRYPT_MAX_BYTES == 72

\* a Date field that is not set
undefinedDate == -1

\* the step of the clock, and the last instant the model runs to
TickMs == 5 * 60 * 1000
MaxTime == MaxTicks * TickMs

\* a string of BCRYPT_MAX_BYTES + 1 characters that ends in c
Long(c) == [i \in 1..(BCRYPT_MAX_BYTES + 1) |-> IF i = BCRYPT_MAX_BYTES + 1 THEN c ELSE "a"]

\* the plaintext passwords and candidates
Passwords == {<<"s", "e", "c", "r", "e", "t">>, <<"w", "r", "o", "n", "g">>,
              Long("b"), Long("c")}

\* the salts bcrypt.genSalt draws
Salts == {"salt1", "salt2"}

\* the values of the passwordHash field: not set, a string as the caller
\* assigned it, or a string bcrypt.hash produced
NoValue == [kind |-> "undefined", rounds |-> 0, salt |-> "", text |-> <<>>]

Str(p) == [kind |-> "string", rounds |-> 0, salt |-> "", text |-> p]

\* bcrypt.hash(data, salt): a digest of the salt and of the first
\* BCRYPT_MAX_BYTES bytes of data
bcrypt_hash(data, salt) ==
    [kind |-> "bcrypt", rounds |-> SALT_ROUNDS, salt |-> salt,
     text |-> SubSeq(data, 1, IF Len(data) < BCRYPT_MAX_BYTES THEN Len(data)
                                                              ELSE BCRYPT_MAX_BYTES)]

\* bcrypt.compare(data, encrypted): hashes data with the salt and the cost of
\* encrypted and compares; false when encrypted is no bcrypt hash
bcrypt_compare(data, encrypted) ==
    /\ encrypted.kind = "bcrypt"
    /\ [bcrypt_hash(data, encrypted.salt) EXCEPT !.rounds = encrypted.rounds] = encrypted

-----------------------------------------------------------------------------
(* userSchema: passwords *)

\* the caller sets a password: user.passwordHash = plaintext
User_assignPassword ==
    \E p \in Passwords :
        /\ passwordHash' = Str(p)
        /\ pwModified' = (pwModified \/ passwordHash # Str(p))
        /\ plaintext' = p
        /\ call' = [op |-> "assignPassword", out |-> "ok"]
        /\ UNCHANGED <<storedHash, now, lockVars, codeVars, dbVars, logVars>>

\* the pre-save hook without its isModified test
preSave_always(salt) == bcrypt_hash(passwordHash.text, salt)

\* the pre-save hook: the value of passwordHash after it ran with this salt
preSave(salt) ==
    IF ~pwModified THEN passwordHash
    ELSE bcrypt_hash(passwordHash.text, salt)

\* user.save(): validation (passwordHash is required), the pre-save hook, the
\* write; hashing may fail, and then nothing is written
User_save ==
    IF passwordHash = NoValue
    THEN /\ call' = [op |-> "save", out |-> "ValidationError"]
         /\ UNCHANGED <<userVars, dbVars, logVars>>
    ELSE \E salt \in Salts, hashed \in BOOLEAN :
           IF pwModified /\ ~hashed
           THEN /\ call' = [op |-> "save", out |-> "HashError"]
                /\ UNCHANGED <<userVars, dbVars, logVars>>
           ELSE /\ passwordHash' = preSave(salt)
                /\ storedHash' = preSave(salt)
                /\ pwModified' = FALSE
                /\ call' = [op |-> "save", out |-> "ok"]
                /\ UNCHANGED <<plaintext, now, lockVars, codeVars, dbVars, logVars>>

\* verifyPassword(candidatePassword)
verifyPassword(candidatePassword) == bcrypt_compare(candidatePassword, passwordHash)

User_verifyPassword ==
    /\ passwordHash # NoValue
    /\ \E c \in Passwords :
         /\ call' = [op |-> "verifyPassword", candidate |-> c, out |-> "ok",
                     ret |-> verifyPassword(c)]
         /\ UNCHANGED <<userVars, dbVars, logVars>>

\* updateById(id, { passwordHash: plaintext }) of the user accessor on the
\* persisted user: findByIdAndUpdate writes the patch as given (no save hook
\* runs) and returns the updated document
UserModel_updateById ==
    /\ storedHash # NoValue
    /\ \E p \in Passwords :
         /\ storedHash' = Str(p)
         /\ passwordHash' = Str(p)
         /\ pwModified' = FALSE
         /\ plaintext' = p
         /\ call' = [op |-> "updateById", out |-> "ok"]
         /\ UNCHANGED <<now, lockVars, codeVars, dbVars, logVars>>

-----------------------------------------------------------------------------
(* userSchema: lockout *)

\* time passes
Tick ==
    /\ now < MaxTime
    /\ now' = now + TickMs
    /\ call' = [op |-> "tick", out |-> "ok"]
    /\ UNCHANGED <<pwVars, lockVars, codeVars, dbVars, logVars>>

\* isAccountLocked without the comparison with the clock
isAccountLocked_sticky == lockUntil # undefinedDate

\* isAccountLocked()
isAccountLocked == lockUntil # undefinedDate /\ lockUntil > now

\* resetLock that clears the lock and keeps the counter
resetLock_keepsCount ==
    /\ failedLoginAttempts' = failedLoginAttempts
    /\ lockUntil' = undefinedDate

\* resetLock that zeroes the counter and keeps the lock
resetLock_keepsLock ==
    /\ failedLoginAttempts' = 0
    /\ lockUntil' = lockUntil

\* resetLock()
resetLock ==
    /\ failedLoginAttempts' = 0
    /\ lockUntil' = undefinedDate

\* incrementLoginAttempts with > for >=: the lock comes one attempt late
incrementLoginAttempts_after ==
    /\ failedLoginAttempts' = failedLoginAttempts + 1
    /\ lockUntil' = IF failedLoginAttempts' > MAX_FAILED_ATTEMPTS
                    THEN now + ACCOUNT_LOCK_DURATION_MS
                    ELSE lockUntil

\* incrementLoginAttempts with === for >=: only the fifth attempt locks
incrementLoginAttempts_exact ==
    /\ failedLoginAttempts' = failedLoginAttempts + 1
    /\ lockUntil' = IF failedLoginAttempts' = MAX_FAILED_ATTEMPTS
                    THEN now + ACCOUNT_LOCK_DURATION_MS
                    ELSE lockUntil

\* incrementLoginAttempts()
incrementLoginAttempts ==
    /\ failedLoginAttempts' = failedLoginAttempts + 1
    /\ lockUntil' = IF failedLoginAttempts' >= MAX_FAILED_ATTEMPTS
                    THEN now + ACCOUNT_LOCK_DURATION_MS
                    ELSE lockUntil

User_resetLock ==
    /\ resetLock
    /\ call' = [op |-> "resetLock", out |-> "ok"]
    /\ UNCHANGED <<now, pwVars, lastLoginAt, codeVars, dbVars, logVars>>

User_incrementLoginAttempts ==
    /\ failedLoginAttempts < MaxAttempts
    /\ incrementLoginAttempts
    /\ call' = [op |-> "incrementLoginAttempts", out |-> "ok"]
    /\ UNCHANGED <<now, pwVars, lastLoginAt, codeVars, dbVars, logVars>>

\* authenticate(candidate): refused while locked; a correct password resets
\* the lock and records the login; a wrong one counts as a failed attempt
authenticate ==
    \E c \in Passwords :
        IF isAccountLocked
        THEN /\ call' = [op |-> "authenticate", candidate |-> c, out |-> "AccountLocked"]
             /\ UNCHANGED <<userVars, dbVars, logVars>>
        ELSE IF verifyPassword(c)
        THEN /\ resetLock
             /\ lastLoginAt' = now
             /\ call' = [op |-> "authenticate", candidate |-> c, out |-> "ok"]
             /\ UNCHANGED <<now, pwVars, codeVars, dbVars, logVars>>
        ELSE /\ failedLoginAttempts < MaxAttempts
             /\ incrementLoginAttempts
             /\ call' = [op |-> "authenticate", candidate |-> c, out |-> "WrongPassword"]
             /\ UNCHANGED <<now, pwVars, lastLoginAt, codeVars, dbVars, logVars>>

-----------------------------------------------------------------------------
(* userSchema: verify and reset codes *)

\* Math.random(), as a fraction <<numerator, denominator>> in [0, 1)
RandomDraws == {<<0, 1>>, <<999, 1000>>}

DigitChars == <<"0", "1", "2", "3", "4", "5", "6", "7", "8", "9">>

\* Number.prototype.toString of a natural number, as its characters
RECURSIVE toString(_)
toString(n) ==
    IF n < 10 THEN <<DigitChars[n + 1]>>
    ELSE toString(n \div 10) \o <<DigitChars[(n % 10) + 1]>>

\* Math.floor(Math.random() * 1000): the offset of 100 left out
codePart_noOffset(r) == (r[1] * 1000) \div r[2]

\* Math.floor(100 + Math.random() * 900)
codePart(r) == 100 + ((r[1] * 900) \div r[2])

\* generateCode(), given the two random draws
generateCode(r1, r2) == toString(codePart(r1)) \o <<"-">> \o toString(codePart(r2))

\* every code generateCode can return
Codes == {generateCode(r1, r2) : r1 \in RandomDraws, r2 \in RandomDraws}

\* generateVerifyCode with the expiry computed in hours
generateVerifyCode_hours ==
    \E r1 \in RandomDraws, r2 \in RandomDraws :
        /\ verifyCode' = generateCode(r1, r2)
        /\ verifyCodeExpiresAt' = now + CODE_EXPIRATION_MINUTES * 60 * 60 * 1000
        /\ verifyCodeIssuedAt' = now
        /\ call' = [op |-> "generateVerifyCode", out |-> "ok", ret |-> generateCode(r1, r2)]
        /\ UNCHANGED <<isVerified, resetCode, resetCodeExpiresAt, resetCodeIssuedAt,
                       now, pwVars, lockVars, dbVars, logVars>>

\* generateVerifyCode that also resets isVerified
generateVerifyCode_unverifies ==
    \E r1 \in RandomDraws, r2 \in RandomDraws :
        /\ verifyCode' = generateCode(r1, r2)
        /\ verifyCodeExpiresAt' = now + CODE_EXPIRATION_MINUTES * 60 * 1000
        /\ verifyCodeIssuedAt' = now
        /\ isVerified' = FALSE
        /\ call' = [op |-> "generateVerifyCode", out |-> "ok", ret |-> generateCode(r1, r2)]
        /\ UNCHANGED <<resetCode, resetCodeExpiresAt, resetCodeIssuedAt,
                       now, pwVars, lockVars, dbVars, logVars>>

\* generateVerifyCode()
generateVerifyCode ==
    \E r1 \in RandomDraws, r2 \in RandomDraws :
        /\ verifyCode' = generateCode(r1, r2)
        /\ verifyCodeExpiresAt' = now + CODE_EXPIRATION_MINUTES * 60 * 1000
        /\ verifyCodeIssuedAt' = now
        /\ call' = [op |-> "generateVerifyCode", out |-> "ok", ret |-> generateCode(r1, r2)]
        /\ UNCHANGED <<isVerified, resetCode, resetCodeExpiresAt, resetCodeIssuedAt,
                       now, pwVars, lockVars, dbVars, logVars>>

\* generateResetCode that also drops the pending verify code
generateResetCode_dropsVerify ==
    \E r1 \in RandomDraws, r2 \in RandomDraws :
        /\ resetCode' = generateCode(r1, r2)
        /\ resetCodeExpiresAt' = now + CODE_EXPIRATION_MINUTES * 60 * 1000
        /\ resetCodeIssuedAt' = now
        /\ verifyCode' = <<>>
        /\ verifyCodeExpiresAt' = undefinedDate
        /\ call' = [op |-> "generateResetCode", out |-> "ok", ret |-> generateCode(r1, r2)]
        /\ UNCHANGED <<isVerified, verifyCodeIssuedAt, now, pwVars, lockVars, dbVars, logVars>>

\* generateResetCode()
generateResetCode ==
    \E r1 \in RandomDraws, r2 \in RandomDraws :
        /\ resetCode' = generateCode(r1, r2)
        /\ resetCodeExpiresAt' = now + CODE_EXPIRATION_MINUTES * 60 * 1000
        /\ resetCodeIssuedAt' = now
        /\ call' = [op |-> "generateResetCode", out |-> "ok", ret |-> generateCode(r1, r2)]
        /\ UNCHANGED <<isVerified, verifyCode, verifyCodeExpiresAt, verifyCodeIssuedAt,
                       now, pwVars, lockVars, dbVars, logVars>>

\* the outcome of presenting candidate for a stored code with this expiry
consumeOutcome(candidate, stored, expiresAt) ==
    IF stored = <<>> \/ candidate # stored THEN "CodeMismatch"
    ELSE IF ~(now < expiresAt) THEN "CodeExpired"
    ELSE "ok"

\* consumeVerifyCode(candidate): on success the code is cleared and the
\* account becomes verified
consumeVerifyCode ==
    \E c \in Codes :
        /\ call' = [op |-> "consumeVerifyCode", candidate |-> c,
                    out |-> consumeOutcome(c, verifyCode, verifyCodeExpiresAt)]
        /\ IF consumeOutcome(c, verifyCode, verifyCodeExpiresAt) = "ok"
           THEN /\ verifyCode' = <<>>
                /\ verifyCodeExpiresAt' = undefinedDate
                /\ isVerified' = TRUE
                /\ UNCHANGED <<verifyCodeIssuedAt, resetCode, resetCodeExpiresAt,
                               resetCodeIssuedAt>>
           ELSE UNCHANGED codeVars
        /\ UNCHANGED <<now, pwVars, lockVars, dbVars, logVars>>

\* consumeResetCode(candidate): on success the code is cleared
consumeResetCode ==
    \E c \in Codes :
        /\ call' = [op |-> "consumeResetCode", candidate |-> c,
                    out |-> consumeOutcome(c, resetCode, resetCodeExpiresAt)]
        /\ IF consumeOutcome(c, resetCode, resetCodeExpiresAt) = "ok"
           THEN /\ resetCode' = <<>>
                /\ resetCodeExpiresAt' = undefinedDate
                /\ UNCHANGED <<isVerified, verifyCode, verifyCodeExpiresAt,
                               verifyCodeIssuedAt, resetCodeIssuedAt>>
           ELSE UNCHANGED codeVars
        /\ UNCHANGED <<now, pwVars, lockVars, dbVars, logVars>>

-----------------------------------------------------------------------------
(* The log store and the configuration of a log sink *)

\* log_expiration_days that is not given
undefinedDays == -1

\* the configurations a tenant may carry
Configs ==
    [db_url : DbUrls,
     log_console : {"true", "false"},
     log_expiration_days : {undefinedDays, 7, 30, 400},
     log_capped : BOOLEAN,
     log_max : {"none", "size+docs"}]

\* of these, the ones createLog is called with: it reads no log_console
SetupConfigs == {c \in Configs : c.log_console = "true"}

\* of these, the ones a MongoLog is constructed with in this model: it reads
\* neither log_max_size nor log_max_docs, and validates no range
SinkConfigs == {c \in Configs : c.log_max = "none" /\ c.log_expiration_days # 400}

NoConfig ==
    [db_url |-> "", log_console |-> "", log_expiration_days |-> undefinedDays,
     log_capped |-> FALSE, log_max |-> ""]

\* MongoClient instances: none, the tenant's, or the i-th one the sink created
NoClient == [by |-> "none", id |-> 0]
TenantClient == [by |-> "tenant", id |-> 0]
SinkClient(i) == [by |-> "sink", id |-> i]

ClientIds == 1..MaxClients

\* the MongoClient the sink creates next
NextClient == 1 + Cardinality({i \in ClientIds : sinkClients[i] # "none"})

\* whether a client can carry an operation
IsOpen(c) ==
    IF c.by = "tenant" THEN tenantClientOpen
    ELSE IF c.by = "sink" THEN sinkClients[c.id] = "open"
    ELSE FALSE

\* a TTL index
TtlIndex(name, key, days) == [name |-> name, key |-> key, expireAfterSeconds |-> days * 86400]

\* createIndex of a TTL index on the log collection: the store refuses it on a
\* capped collection and when an index of the same key or name exists with
\* other options; creating an index that exists already changes nothing
CreateIndexOk(index) ==
    /\ ~coll.capped
    /\ \A i \in coll.ttl : (i.key = index.key \/ i.name = index.name) => i = index

\* the collection after createIndex succeeded (the collection is created when
\* it does not exist)
WithIndex(index) == [coll EXCEPT !.exists = TRUE, !.ttl = coll.ttl \cup {index}]

-----------------------------------------------------------------------------
(* createLog *)

\* the schema validation at the head of createLog
ConfigValid(cfg) ==
    /\ cfg.db_url # ""
    /\ cfg.log_expiration_days # undefinedDays
         => (cfg.log_expiration_days >= 1 /\ cfg.log_expiration_days <= 365)

\* the guard against capped and TTL together
Conflicting(cfg) == cfg.log_capped /\ cfg.log_expiration_days # undefinedDays

\* the collection createLog creates when there is none
CreatedCollection(cfg) ==
    IF cfg.log_capped /\ cfg.log_max = "size+docs"
    THEN [exists |-> TRUE, capped |-> TRUE, ttl |-> {}]
    ELSE [exists |-> TRUE, capped |-> FALSE, ttl |-> {}]

\* the collection after the existence check and the creation
Ensured(cfg) == IF coll.exists THEN coll ELSE CreatedCollection(cfg)

\* the index createLog looks for and creates
TimestampTtl(cfg) == TtlIndex("timestamp_ttl", "timestamp", cfg.log_expiration_days)

\* whether createLog finds its TTL index
ttlExists == \E i \in coll.ttl : i.key = "timestamp" /\ i.name = "timestamp_ttl"

\* createLog(tenant)
createLog ==
    \E cfg \in SetupConfigs :
        IF ~ConfigValid(cfg)
        THEN /\ call' = [op |-> "createLog", cfg |-> cfg, out |-> "ValidationError"]
             /\ UNCHANGED <<logVars, notLog>>
        ELSE IF Conflicting(cfg)
        THEN /\ call' = [op |-> "createLog", cfg |-> cfg, out |-> "ConflictingRetention"]
             /\ UNCHANGED <<logVars, notLog>>
        ELSE \E connected \in BOOLEAN :
               IF ~connected
               THEN /\ call' = [op |-> "createLog", cfg |-> cfg, out |-> "SetupError"]
                    /\ UNCHANGED <<logVars, notLog>>
               ELSE /\ setupClients < MaxSetups
                    /\ setupClients' = setupClients + 1
                    /\ IF cfg.log_expiration_days # undefinedDays /\ ~cfg.log_capped
                          /\ ~ttlExists
                       THEN IF Ensured(cfg).capped
                            THEN /\ coll' = Ensured(cfg)
                                 /\ call' = [op |-> "createLog", cfg |-> cfg,
                                             out |-> "SetupError"]
                            ELSE /\ coll' = [Ensured(cfg) EXCEPT
                                               !.ttl = @ \cup {TimestampTtl(cfg)}]
                                 /\ call' = [op |-> "createLog", cfg |-> cfg, out |-> "ok"]
                       ELSE /\ coll' = Ensured(cfg)
                            /\ call' = [op |-> "createLog", cfg |-> cfg, out |-> "ok"]
                    /\ UNCHANGED <<logEntries, sinkVars, notLog>>

-----------------------------------------------------------------------------
(* MongoLog *)

\* the fields the constructor derives from the configuration
logToConsole == sinkConfig.log_console # "false"

expirationDays ==
    IF sinkConfig.log_expiration_days = undefinedDays THEN 0
    ELSE sinkConfig.log_expiration_days

\* new MongoLog(tenant)
MongoLog_constructor ==
    /\ sinkConfig = NoConfig
    /\ \E cfg \in SinkConfigs :
         /\ sinkConfig' = cfg
         /\ call' = [op |-> "newMongoLog", cfg |-> cfg, out |-> "ok"]
         /\ UNCHANGED <<storeVars, mongoClient, ownsConnection, collectionSet,
                        sinkClients, tenantShared, tenantClientOpen, notLog>>

\* the tenant's database gets its MongoClient
Tenant_attachClient ==
    /\ ~tenantShared
    /\ tenantShared' = TRUE
    /\ call' = [op |-> "attachClient", out |-> "ok"]
    /\ UNCHANGED <<storeVars, sinkConfig, mongoClient, ownsConnection, collectionSet,
                   sinkClients, tenantClientOpen, notLog>>

\* the tail of connect(): the TTL index is created when days are configured
\* (a failure is only warned about), and the collection is set
connectTail(client, clientOpen) ==
    /\ collectionSet' = TRUE
    /\ coll' = IF expirationDays > 0 /\ clientOpen
                  /\ CreateIndexOk(TtlIndex("createdAt_1", "createdAt", expirationDays))
               THEN WithIndex(TtlIndex("createdAt_1", "createdAt", expirationDays))
               ELSE coll
    /\ call' = [op |-> "sinkConnect", out |-> "ok"]
    /\ UNCHANGED <<setupClients, logEntries, sinkConfig, tenantShared, tenantClientOpen,
                   notLog>>

\* connect()
MongoLog_connect ==
    /\ sinkConfig # NoConfig
    /\ IF tenantShared
       THEN /\ mongoClient' = TenantClient
            /\ ownsConnection' = FALSE
            /\ UNCHANGED sinkClients
            /\ connectTail(TenantClient, tenantClientOpen)
       ELSE IF mongoClient # NoClient
       THEN /\ UNCHANGED <<mongoClient, ownsConnection, sinkClients>>
            /\ connectTail(mongoClient, IsOpen(mongoClient))
       ELSE IF sinkConfig.db_url = ""
       THEN /\ call' = [op |-> "sinkConnect", out |-> "MissingUrl"]
            /\ UNCHANGED <<logVars, notLog>>
       ELSE /\ NextClient <= MaxClients
            /\ mongoClient' = SinkClient(NextClient)
            /\ \E connected \in BOOLEAN :
                 IF connected
                 THEN /\ sinkClients' = [sinkClients EXCEPT ![NextClient] = "open"]
                      /\ ownsConnection' = TRUE
                      /\ connectTail(SinkClient(NextClient), TRUE)
                 ELSE /\ sinkClients' = [sinkClients EXCEPT ![NextClient] = "created"]
                      /\ call' = [op |-> "sinkConnect", out |-> "ConnectError"]
                      /\ UNCHANGED <<storeVars, sinkConfig, ownsConnection, collectionSet,
                                     tenantShared, tenantClientOpen, notLog>>

\* MongoClient.close() of the client the sink holds: the client after it
Closed(client) ==
    IF client.by = "sink"
    THEN [sinkClients EXCEPT ![client.id] = "closed"]
    ELSE sinkClients

\* disconnect()
MongoLog_disconnect ==
    /\ sinkConfig # NoConfig
    /\ IF mongoClient # NoClient /\ ownsConnection
       THEN \E closed \in (IF IsOpen(mongoClient) THEN BOOLEAN ELSE {TRUE}) :
              IF closed
              THEN /\ sinkClients' = Closed(mongoClient)
                   /\ tenantClientOpen' = (tenantClientOpen /\ mongoClient.by # "tenant")
                   /\ mongoClient' = NoClient
                   /\ collectionSet' = FALSE
                   /\ call' = [op |-> "sinkDisconnect", out |-> "ok", closed |-> mongoClient]
                   /\ UNCHANGED <<storeVars, sinkConfig, ownsConnection, tenantShared, notLog>>
              ELSE /\ call' = [op |-> "sinkDisconnect", out |-> "CloseError",
                               closed |-> NoClient]
                   /\ UNCHANGED <<logVars, notLog>>
       ELSE /\ mongoClient' = NoClient
            /\ collectionSet' = FALSE
            /\ call' = [op |-> "sinkDisconnect", out |-> "ok", closed |-> NoClient]
            /\ UNCHANGED <<storeVars, sinkConfig, ownsConnection, sinkClients,
                           tenantShared, tenantClientOpen, notLog>>

\* the levels of the log methods that write to the store
Levels == {"debug", "error", "info", "log", "trace", "warn"}

\* _insertLog(level, message) followed by the console mirror, as the log
\* methods run them: a failed insert leaves the method at the await
logMethod(level) ==
    IF ~collectionSet
    THEN /\ call' = [op |-> level, out |-> "NotConnected", console |-> FALSE]
         /\ UNCHANGED <<logVars, notLog>>
    ELSE \E inserted \in (IF IsOpen(mongoClient) THEN BOOLEAN ELSE {FALSE}) :
           IF inserted
           THEN /\ logEntries < MaxEntries
                /\ logEntries' = logEntries + 1
                /\ coll' = [coll EXCEPT !.exists = TRUE]
                /\ call' = [op |-> level, out |-> "ok", console |-> logToConsole]
                /\ UNCHANGED <<setupClients, sinkVars, notLog>>
           ELSE /\ call' = [op |-> level, out |-> "InsertError", console |-> FALSE]
                /\ UNCHANGED <<logVars, notLog>>

\* debug(), error(), info(), log(), trace(), warn()
MongoLog_log ==
    /\ sinkConfig # NoConfig
    /\ \E level \in Levels : logMethod(level)

\* assert(expression, ...args): only a failed assertion is written
MongoLog_assert ==
    /\ sinkConfig # NoConfig
    /\ \E expression \in BOOLEAN :
         IF ~expression THEN logMethod("assert")
         ELSE /\ call' = [op |-> "assert", out |-> "ok", console |-> logToConsole]
              /\ UNCHANGED <<logVars, notLog>>

-----------------------------------------------------------------------------

InitDb ==
    /\ db_url \in DbUrls
    /\ mongooseConnection = 0
    /\ connection = 0
    /\ handles = [h \in Handles |-> "none"]
    /\ models = [n \in Names |-> NoModel]
    /\ accessor = NoAccessor
    /\ docs = [n \in Names |-> [i \in DocIds |-> Unused]]

\* a user document just constructed: the schema's defaults
InitLock ==
    /\ failedLoginAttempts = 0
    /\ lockUntil = undefinedDate
    /\ lastLoginAt = undefinedDate

InitCode ==
    /\ isVerified = FALSE
    /\ verifyCode = <<>>
    /\ verifyCodeExpiresAt = undefinedDate
    /\ verifyCodeIssuedAt = undefinedDate
    /\ resetCode = <<>>
    /\ resetCodeExpiresAt = undefinedDate
    /\ resetCodeIssuedAt = undefinedDate

InitUser ==
    /\ now = 0
    /\ passwordHash = NoValue
    /\ pwModified = FALSE
    /\ storedHash = NoValue
    /\ plaintext = <<>>
    /\ InitLock
    /\ InitCode

\* an empty log store; no MongoLog constructed
InitLog ==
    /\ coll = [exists |-> FALSE, capped |-> FALSE, ttl |-> {}]
    /\ setupClients = 0
    /\ logEntries = 0
    /\ sinkConfig = NoConfig
    /\ mongoClient = NoClient
    /\ ownsConnection = FALSE
    /\ collectionSet = FALSE
    /\ sinkClients = [i \in ClientIds |-> "none"]
    /\ tenantShared = FALSE
    /\ tenantClientOpen = TRUE

Init ==
    /\ InitDb
    /\ InitUser
    /\ InitLog
    /\ call = [op |-> "none", out |-> "ok"]

NextDb ==
    \/ MongoDatabase_connect
    \/ MongoDatabase_disconnect
    \/ MongoDatabase_registerModel
    \/ closeDB
    \/ MongooseModel_constructor

SpecDb == Init /\ [][NextDb]_vars

\* the tenant database after connect() and the construction of an accessor of
\* the model "user": the state the record accessor works from
InitCrud ==
    /\ db_url = "mongodb://host/app"
    /\ mongooseConnection = 1
    /\ connection = 1
    /\ handles = [h \in Handles |-> IF h = 1 THEN "open" ELSE "none"]
    /\ models = [n \in Names |-> IF n = "user" THEN [conn |-> 1, schema |-> "schemaA"]
                                              ELSE NoModel]
    /\ accessor = [name |-> "user", model |-> [conn |-> 1, schema |-> "schemaA"]]
    /\ docs = [n \in Names |-> [i \in DocIds |-> Unused]]
    /\ InitUser
    /\ InitLog
    /\ call = [op |-> "construct", name |-> "user", impl |-> "schemaA", out |-> "ok"]

\* the record accessor at work, until the tenant database disconnects
NextCrud ==
    \/ MongooseModel_findById
    \/ MongooseModel_findByIdMalformed
    \/ MongooseModel_create
    \/ MongooseModel_updateById
    \/ MongooseModel_deleteById
    \/ MongoDatabase_disconnect

SpecCrud == InitCrud /\ [][NextCrud]_vars

\* the user document: passwords are set, saved, verified and patched
NextPwd ==
    \/ User_assignPassword
    \/ User_save
    \/ User_verifyPassword
    \/ UserModel_updateById

SpecPwd == Init /\ [][NextPwd]_vars

\* a user registered with the password "secret": the document was saved once
InitAuth ==
    /\ InitDb
    /\ now = 0
    /\ \E salt \in Salts :
         /\ passwordHash = bcrypt_hash(<<"s", "e", "c", "r", "e", "t">>, salt)
         /\ storedHash = passwordHash
    /\ pwModified = FALSE
    /\ plaintext = <<"s", "e", "c", "r", "e", "t">>
    /\ InitLock
    /\ InitCode
    /\ InitLog
    /\ call = [op |-> "save", out |-> "ok"]

\* the lockout of that user over time
NextAuth ==
    \/ Tick
    \/ User_incrementLoginAttempts
    \/ User_resetLock
    \/ authenticate

SpecAuth == InitAuth /\ [][NextAuth]_vars

\* the account of that user: failed and successful logins, unlocks and the
\* issue of verify codes over time
NextAccount ==
    \/ Tick
    \/ User_incrementLoginAttempts
    \/ User_resetLock
    \/ authenticate
    \/ generateVerifyCode

SpecAccount == InitAuth /\ [][NextAccount]_vars

\* the counter and the lock of a new user under failed attempts and unlocks
\* over time
NextLock ==
    \/ Tick
    \/ User_incrementLoginAttempts
    \/ User_resetLock

SpecLock == Init /\ [][NextLock]_vars

\* a user document created with isVerified as the caller gave it (the schema
\* defaults it to false) and nothing else set
InitAxes ==
    /\ InitDb
    /\ db_url = "mongodb://host/app"
    /\ now = 0
    /\ passwordHash = NoValue
    /\ pwModified = FALSE
    /\ storedHash = NoValue
    /\ plaintext = <<>>
    /\ InitLock
    /\ isVerified \in BOOLEAN
    /\ verifyCode = <<>>
    /\ verifyCodeExpiresAt = undefinedDate
    /\ verifyCodeIssuedAt = undefinedDate
    /\ resetCode = <<>>
    /\ resetCodeExpiresAt = undefinedDate
    /\ resetCodeIssuedAt = undefinedDate
    /\ InitLog
    /\ call = [op |-> "none", out |-> "ok"]

\* the codes, the counter and the lock of that user side by side
NextAxes ==
    \/ Tick
    \/ generateVerifyCode
    \/ generateResetCode
    \/ User_incrementLoginAttempts
    \/ User_resetLock

SpecAxes == InitAxes /\ [][NextAxes]_vars

\* the verify and reset codes of a user over time
NextCode ==
    \/ Tick
    \/ generateVerifyCode
    \/ generateResetCode
    \/ consumeVerifyCode
    \/ consumeResetCode

SpecCode == Init /\ [][NextCode]_vars

\* the set-up of the log sinks: createLog sets the collection up; a MongoLog is
\* constructed, connected and disconnected
NextSetup ==
    \/ createLog
    \/ MongoLog_constructor
    \/ MongoLog_connect
    \/ MongoLog_disconnect

SpecSetup == Init /\ [][NextSetup]_vars

\* a MongoLog at work: constructed, connected, written to and disconnected,
\* while the tenant's database may get its own client
NextSink ==
    \/ MongoLog_constructor
    \/ Tenant_attachClient
    \/ MongoLog_connect
    \/ MongoLog_disconnect
    \/ MongoLog_log
    \/ MongoLog_assert

SpecSink == Init /\ [][NextSink]_vars

-----------------------------------------------------------------------------
(* Claims *)

\* C1: a registerModel(name, schema) that follows a successful registerModel of
\* the same name fails with the duplicate-model error, and getModel(name) still
\* returns the model registered first, unchanged.
C1_DuplicateRegisterFails ==
    [][\A n \in Names :
          (getModel(n) # NoModel /\ call'.op = "registerModel" /\ call'.name = n)
              => (call'.out = "DuplicateModel" /\ getModel(n)' = getModel(n))]_vars

\* C1 witness: a second registration, with another schema, was refused and the
\* registry still holds the model of the first schema.
C1_Witness ==
    /\ call.op = "registerModel"
    /\ call.out = "DuplicateModel"
    /\ getModel(call.name) # NoModel
    /\ getModel(call.name).schema # call.schema

\* C2: the fifth consecutive failed attempt (counted by incrementLoginAttempts
\* from 0) leaves the account locked; while lockUntil is in the future every
\* authentication attempt, the correct password included, is refused as
\* locked; and the lock stays until lockUntil passes or resetLock is called.
C2_LockedAfterFiveFailures ==
    [][/\ (call'.op \in {"incrementLoginAttempts", "authenticate"}
              /\ failedLoginAttempts = 4 /\ failedLoginAttempts' = 5)
            => isAccountLocked'
       /\ (call'.op = "authenticate" /\ lockUntil # undefinedDate /\ now < lockUntil)
            => (call'.out = "AccountLocked" /\ UNCHANGED lockVars)
       /\ (isAccountLocked /\ call'.op # "resetLock" /\ now' < lockUntil)
            => isAccountLocked'
      ]_vars

\* C2 witness: five failed attempts were counted, time has passed, and an
\* attempt with the correct password was refused as locked.
C2_Witness ==
    /\ call.op = "authenticate"
    /\ call.out = "AccountLocked"
    /\ call.candidate = plaintext
    /\ failedLoginAttempts = 5
    /\ now > 0

\* C3: a verify or reset code presented for consumption is accepted exactly
\* when it equals the stored code of its kind and the current time is before
\* that code's expiry; from 15 minutes after the code was issued, the matching
\* code is rejected as expired.
C3_CodeAcceptedIffValid ==
    [][/\ call'.op = "consumeVerifyCode"
            => /\ (call'.out = "ok") <=>
                      (call'.candidate = verifyCode /\ now < verifyCodeExpiresAt)
               /\ (call'.candidate = verifyCode
                      /\ now >= verifyCodeIssuedAt + 15 * 60 * 1000)
                    => call'.out = "CodeExpired"
       /\ call'.op = "consumeResetCode"
            => /\ (call'.out = "ok") <=>
                      (call'.candidate = resetCode /\ now < resetCodeExpiresAt)
               /\ (call'.candidate = resetCode
                      /\ now >= resetCodeIssuedAt + 15 * 60 * 1000)
                    => call'.out = "CodeExpired"
      ]_vars

\* C3 witness: the matching verify code was presented 15 minutes after it was
\* issued and rejected as expired.
C3_Witness ==
    /\ call.op = "consumeVerifyCode"
    /\ call.out = "CodeExpired"
    /\ call.candidate = verifyCode
    /\ now = verifyCodeIssuedAt + 15 * 60 * 1000

\* C4: a successful consumption of a verify code clears the stored code and
\* makes the account verified; presenting the same code again at once fails
\* with a mismatch; a verified account stays verified.
C4_VerifyCodeSingleUse ==
    [][/\ (call'.op = "consumeVerifyCode" /\ call'.out = "ok")
            => (verifyCode' = <<>> /\ isVerified')
       /\ (call.op = "consumeVerifyCode" /\ call.out = "ok"
              /\ call'.op = "consumeVerifyCode" /\ call'.candidate = call.candidate)
            => call'.out = "CodeMismatch"
       /\ isVerified => isVerified'
      ]_vars

\* C4 witness: on a verified account whose code was consumed, a code was
\* presented before the 15 minutes were over and failed with a mismatch.
C4_Witness ==
    /\ call.op = "consumeVerifyCode"
    /\ call.out = "CodeMismatch"
    /\ isVerified
    /\ verifyCode = <<>>
    /\ now < verifyCodeIssuedAt + 15 * 60 * 1000

\* C5: creating a log sink from a configuration with log_capped true and
\* log_expiration_days set fails with the conflicting-retention error, before
\* any client is opened, any collection created or any index created.
C5_ConflictingRetentionRefused ==
    [][/\ (call'.op = "createLog" /\ Conflicting(call'.cfg) /\ ConfigValid(call'.cfg))
            => (call'.out = "ConflictingRetention" /\ UNCHANGED storeVars)
       /\ (call'.op = "newMongoLog" /\ Conflicting(call'.cfg))
            => call'.out = "ConflictingRetention"
       /\ (call'.op = "sinkConnect" /\ Conflicting(sinkConfig))
            => (call'.out # "ok" /\ UNCHANGED <<storeVars, sinkClients>>)
      ]_vars

\* C6: once a password is set and the record persisted, verifyPassword returns
\* true for that plaintext and false for every other candidate, and the
\* persisted passwordHash is not the plaintext.
C6_PasswordRoundTrip ==
    (storedHash # NoValue /\ ~pwModified /\ passwordHash = storedHash)
        => /\ storedHash # Str(plaintext)
           /\ \A c \in Passwords : verifyPassword(c) = (c = plaintext)

C8_DisconnectNeverRaises ==
    call.op \in {"disconnect", "closeDB"} => call.out = "ok"

\* C9: the log sink's disconnect closes the client it holds exactly when the
\* sink opened that client itself; the tenant's client is never closed by the
\* sink; the ownership flag does not change while the sink holds a connection;
\* and every client the sink opened and has not closed is the one it holds and
\* owns, so that a disconnect closes it.
C9_SinkClosesOnlyItsOwnClient ==
    [][/\ (call'.op = "sinkDisconnect" /\ call'.out = "ok")
            => /\ (mongoClient.by = "sink" /\ IsOpen(mongoClient))
                    => sinkClients'[mongoClient.id] = "closed"
               /\ mongoClient.by # "sink" => call'.closed = NoClient
       /\ tenantClientOpen => tenantClientOpen'
       /\ (collectionSet /\ call'.op # "sinkDisconnect")
            => ownsConnection' = ownsConnection
       /\ \A i \in ClientIds :
            sinkClients'[i] = "open"
                => (mongoClient' = SinkClient(i) /\ ownsConnection')
      ]_vars

\* C10: a log call never raises to its caller: assert, debug, error, info,
\* log, trace and warn return normally also when the insert fails or the sink
\* is not connected.
C10_LogCallNeverRaises ==
    call.op \in Levels \cup {"assert"} => call.out = "ok"

\* C11: with console mirroring enabled every log call (debug, error, info,
\* log, trace, warn, failed assert) emits its entry to the console, whether
\* the insert into the store succeeded or failed; with mirroring disabled it
\* emits nothing.
C11_ConsoleMirrorsEveryEntry ==
    call.op \in Levels \cup {"assert"} => call.console = logToConsole

\* C12: whatever log-sink setups ran against the tenant's log collection, the
\* collection is never capped and the holder of a TTL index at once, and it
\* holds at most one TTL index on the creation timestamp of its entries.
C12_OneRetentionPolicy ==
    /\ ~(coll.capped /\ coll.ttl # {})
    /\ Cardinality(coll.ttl) <= 1

C17_OneOpenHandle ==
    \A h \in Handles : handles[h] = "open" => h = mongooseConnection

\* C14: failedLoginAttempts decreases only by a reset (resetLock, or a
\* successful authentication), which sets it to zero; every recorded failed
\* attempt increases it by exactly one; nothing else (the issue of a code, the
\* passing of time, a refused attempt) changes it.
C14_CounterMonotonic ==
    [][/\ (call'.op = "resetLock" \/ (call'.op = "authenticate" /\ call'.out = "ok"))
            => failedLoginAttempts' = 0
       /\ (call'.op = "incrementLoginAttempts"
              \/ (call'.op = "authenticate" /\ call'.out = "WrongPassword"))
            => failedLoginAttempts' = failedLoginAttempts + 1
       /\ (call'.op \in {"tick", "generateVerifyCode"}
              \/ (call'.op = "authenticate" /\ call'.out = "AccountLocked"))
            => failedLoginAttempts' = failedLoginAttempts
       /\ failedLoginAttempts' < failedLoginAttempts
            => (call'.op = "resetLock" \/ (call'.op = "authenticate" /\ call'.out = "ok"))
      ]_vars

\* C14 witness: after a successful login and the issue of a verify code, a
\* failed attempt was counted as the sixth.
C14_Witness ==
    /\ call.op = "authenticate"
    /\ call.out = "WrongPassword"
    /\ failedLoginAttempts = 6
    /\ lastLoginAt # undefinedDate
    /\ verifyCode # <<>>

\* a code of the form DDD-DDD with both halves in 100..999
IsCode(c) ==
    /\ Len(c) = 7
    /\ c[4] = "-"
    /\ \A i \in {1, 2, 3, 5, 6, 7} : \E d \in 1..10 : c[i] = DigitChars[d]
    /\ c[1] # "0"
    /\ c[5] # "0"

\* C16: generateVerifyCode and generateResetCode each store a code of the form
\* DDD-DDD with both halves in 100..999, return the code they stored, and set
\* the expiry of that kind to exactly 15 minutes after the call, whatever code
\* and expiry of that kind were pending.
C16_IssuedCodeFormatAndExpiry ==
    [][/\ call'.op = "generateVerifyCode"
            => /\ IsCode(verifyCode')
               /\ call'.ret = verifyCode'
               /\ verifyCodeExpiresAt' = now + 15 * 60 * 1000
       /\ call'.op = "generateResetCode"
            => /\ IsCode(resetCode')
               /\ call'.ret = resetCode'
               /\ resetCodeExpiresAt' = now + 15 * 60 * 1000
      ]_vars

\* C16 witness: a reset code drawn from the two extremes was issued after
\* time had passed, while a verify code was pending.
C16_Witness ==
    /\ call.op = "generateResetCode"
    /\ resetCode = <<"9", "9", "9", "-", "1", "0", "0">>
    /\ now > 0
    /\ resetCodeExpiresAt = now + 15 * 60 * 1000
    /\ verifyCode # <<>>

\* C18: a successful save hashes passwordHash exactly when it was modified
\* since the last save: then the stored value is the bcrypt hash of the value
\* assigned; otherwise the stored hash is unchanged; and a save that follows
\* a save leaves the stored hash as it is.
C18_HashOnlyWhenModified ==
    [][(call'.op = "save" /\ call'.out = "ok")
          => /\ pwModified
                  => \E salt \in Salts :
                         storedHash' = bcrypt_hash(passwordHash.text, salt)
             /\ ~pwModified => storedHash' = storedHash
             /\ (call.op = "save" /\ call.out = "ok") => storedHash' = storedHash
      ]_vars

\* C18 witness: a record whose password was hashed has been saved with
\* passwordHash unmodified, and holds that hash.
C18_Witness ==
    /\ call.op = "save"
    /\ call.out = "ok"
    /\ ~pwModified
    /\ storedHash.kind = "bcrypt"
    /\ passwordHash = storedHash

\* C19: once the clock has passed lockUntil the account is unlocked, with no
\* operation on it (the passing of time changes neither lockUntil nor the
\* counter); resetLock unlocks at once and sets failedLoginAttempts to zero.
C19_UnlockByTimeOrReset ==
    [][/\ (lockUntil' # undefinedDate /\ now' > lockUntil') => ~isAccountLocked'
       /\ call'.op = "tick" => UNCHANGED lockVars
       /\ call'.op = "resetLock" => (~isAccountLocked' /\ failedLoginAttempts' = 0)
      ]_vars

\* C19 witness: the account was locked by five failed attempts and the clock
\* has moved past lockUntil.
C19_Witness ==
    /\ call.op = "tick"
    /\ failedLoginAttempts >= 5
    /\ lockUntil # undefinedDate
    /\ now > lockUntil
    /\ ~isAccountLocked

\* C20: the account becomes locked only by a failed attempt that brings the
\* counter to 5 or beyond; a failed attempt below that leaves lockUntil alone;
\* a failed attempt recorded with the counter at 5 or more adds one and sets
\* lockUntil to 15 minutes after that attempt.
C20_LockOnlyFromFive ==
    [][/\ (~isAccountLocked /\ isAccountLocked')
            => /\ call'.op = "incrementLoginAttempts"
                    \/ (call'.op = "authenticate" /\ call'.out = "WrongPassword")
               /\ failedLoginAttempts' >= 5
       /\ (call'.op = "incrementLoginAttempts"
              \/ (call'.op = "authenticate" /\ call'.out = "WrongPassword"))
            => IF failedLoginAttempts' < 5
               THEN lockUntil' = lockUntil
               ELSE /\ failedLoginAttempts' = failedLoginAttempts + 1
                    /\ lockUntil' = now + 15 * 60 * 1000
      ]_vars

\* C20 witness: after the lockout had expired by time, a sixth failed attempt
\* was recorded and locked the account for 15 minutes from then.
C20_Witness ==
    /\ call.op = "incrementLoginAttempts"
    /\ failedLoginAttempts = 6
    /\ now >= 15 * 60 * 1000
    /\ lockUntil = now + 15 * 60 * 1000

\* C21: a successful log-sink setup that asks for TTL retention and not for a
\* capped collection leaves exactly one TTL index on the creation timestamp it
\* indexes, and that index expires entries after the days of this setup,
\* whatever setups ran before.
C21_TtlIndexOfLatestSetup ==
    [][/\ (call'.op = "createLog" /\ call'.out = "ok" /\ ~call'.cfg.log_capped
              /\ call'.cfg.log_expiration_days # undefinedDays)
            => {i \in coll'.ttl : i.key = "timestamp"} = {TimestampTtl(call'.cfg)}
       /\ (call'.op = "sinkConnect" /\ call'.out = "ok" /\ ~sinkConfig.log_capped
              /\ expirationDays > 0)
            => {i \in coll'.ttl : i.key = "createdAt"}
                   = {TtlIndex("createdAt_1", "createdAt", expirationDays)}
      ]_vars

\* C23: when createLog finds no collection it creates one, capped when
\* log_capped is true and uncapped otherwise; a collection that exists keeps
\* its kind.
C23_CollectionCreatedAsRequested ==
    [][call'.op = "createLog"
          => /\ (~coll.exists /\ coll'.exists) => (coll'.capped <=> call'.cfg.log_capped)
             /\ coll.exists => (coll'.exists /\ coll'.capped = coll.capped)
      ]_vars

\* C22: the construction of an accessor never fails with the duplicate-model
\* error; on a name that is registered it registers nothing and takes the
\* registered model; on a free name of a connected database it registers the
\* model and takes it.
C22_AccessorsShareOneModel ==
    [][\A n \in Names :
          (call'.op = "construct" /\ call'.name = n)
             => /\ call'.out # "DuplicateModel"
                /\ (getModel(n) # NoModel /\ call'.out = "ok")
                     => (getModel(n)' = getModel(n) /\ accessor'.model = getModel(n))
                /\ (getModel(n) # NoModel /\ call'.impl \in Schemas) => call'.out = "ok"
                /\ (getModel(n) = NoModel /\ call'.out = "ok")
                     => (getModel(n)' # NoModel /\ accessor'.model = getModel(n)')
      ]_vars

\* C22 witness: an accessor was constructed with another schema than the one
\* the name is registered with, and holds the registered model.
C22_Witness ==
    /\ call.op = "construct"
    /\ call.out = "ok"
    /\ call.impl \in Schemas
    /\ accessor.name = call.name
    /\ accessor.model = getModel(call.name)
    /\ accessor.model.schema # call.impl

\* C24: every model in the registry is bound to the current connection of the
\* tenant database and that connection is open; a registerModel before any
\* connection exists fails and adds nothing.
C24_RegistryBoundToOpenConnection ==
    /\ \A n \in Names :
          getModel(n) # NoModel
             => (getModel(n).conn = mongooseConnection
                   /\ handles[mongooseConnection] = "open")
    /\ (call.op = "registerModel" /\ mongooseConnection = 0)
          => (call.out # "ok" /\ \A n \in Names : getModel(n) = NoModel)

\* C25: for an account that starts with no failed attempts and no lock, under
\* incrementLoginAttempts and resetLock over time, lockUntil is set exactly
\* when failedLoginAttempts is 5 or more, and a set lockUntil is 15 minutes
\* after the failed attempt recorded last.
C25_LockSetIffFiveOrMore ==
    [][/\ (lockUntil' # undefinedDate) <=> (failedLoginAttempts' >= 5)
       /\ (call'.op = "incrementLoginAttempts" /\ failedLoginAttempts' >= 5)
            => lockUntil' = now + 15 * 60 * 1000
       /\ call'.op = "tick" => lockUntil' = lockUntil
      ]_vars

\* C25 witness: the seventh failed attempt in a row was recorded after time
\* had passed, and the lock runs for 15 minutes from it.
C25_Witness ==
    /\ call.op = "incrementLoginAttempts"
    /\ failedLoginAttempts = 7
    /\ now > 0
    /\ lockUntil = now + 15 * 60 * 1000

\* C26: issuing a verify code leaves the reset code, its expiry, the counter,
\* the lock and isVerified as they are; issuing a reset code leaves the
\* verify code, its expiry and those fields as they are;
\* incrementLoginAttempts and resetLock leave both codes, both expiries and
\* isVerified as they are.
C26_AxesIndependent ==
    [][/\ call'.op = "generateVerifyCode"
            => UNCHANGED <<resetCode, resetCodeExpiresAt, failedLoginAttempts,
                           lockUntil, isVerified>>
       /\ call'.op = "generateResetCode"
            => UNCHANGED <<verifyCode, verifyCodeExpiresAt, failedLoginAttempts,
                           lockUntil, isVerified>>
       /\ call'.op \in {"incrementLoginAttempts", "resetLock"}
            => UNCHANGED <<verifyCode, verifyCodeExpiresAt, resetCode,
                           resetCodeExpiresAt, isVerified>>
      ]_vars

\* C26 witness: on a verified, locked account with a verify code pending, a
\* reset code was issued.
C26_Witness ==
    /\ call.op = "generateResetCode"
    /\ isVerified
    /\ verifyCode # <<>>
    /\ failedLoginAttempts >= 5
    /\ lockUntil # undefinedDate

====
